---- MODULE Spec2Model ----
(***************************************************************************)
(* A model of rubrikcdm/data_management.go: the object resolver (ObjectID) *)
(* and the state-transition operations built on it, run against a model of *)
(* the Rubrik cluster reached through the Get/Post/Patch transport.        *)
(***************************************************************************)
EXTENDS Integers, Sequences, FiniteSets, TLC

VARIABLES isWritable, blackout, effectiveSla, configuredSla, calls, result,
          shape,  \* the field the cluster's responses lack ("none": they are well formed)
          prev,   \* the invocation the caller made before this one, when it is on record
          inv     \* the invocations of the callers that run side by side

vars == <<isWritable, blackout, effectiveSla, configuredSla, calls, result, shape, prev, inv>>

----------------------------------------------------------------------------
(* Bounds of the model *)

\* how many objects of each type share the duplicated name
NumDup == 2
\* a transport call fails when it is the failAt-th call of the invocation, failAt in 0..MaxFail
MaxFail == 5
\* how many callers invoke an operation at the same time
NumCallers == 2

----------------------------------------------------------------------------
(* Program constants *)

DefaultTimeout == 15
LongTimeout == 180

ValidObjectType == {"vmware", "sla", "vmwareHost", "physicalHost", "filesetTemplate", "managedVolume"}
ValidHostOs == {"Linux", "Windows"}

Nil == "nil"
ErrObjectType == "The 'objectType' must be 'vmware', 'sla', 'vmwareHost', 'physicalHost', 'filesetTemplate', or 'managedVolume'"
ErrHostOSValue == "The hostOS must be either 'Linux' or 'Windows'"
ErrNoHostOS == "You must provide the Fileset Tempalte OS type"
ErrNotFound == "The %s object '%s' was not found on the Rubrik cluster"
ErrMultiple == "Multiple %s objects named '%s' were found on the Rubrik cluster. Unable to return a specific object id"
ErrMustBeVmware == "The 'objectType' must be 'vmware'"
ErrHostOSPhysical == "The 'hostOS' must be 'Linux' or 'Windows"
ErrNotAssigned == "The Physical Host '%s' is not assigned to the '%s' Fileset"
ErrTransport == "transport error"

MsgAssigned == "No change required. The vSphere VM '%s' is already assigned to the '%s' SLA Domain."
MsgWritable == "No change required. The Managed Volume '%s' is already in a writeable state."
MsgReadOnly == "No change required. The Managed Volume '%s' is already in a read-only state."
MsgPaused == "No change required. The '%s' '%s' is already paused."
MsgNotPaused == "No change required. The '%s' '%s' is currently not paused."

\* fmt.Sprintf(format, args...) kept as the format and its arguments
Sprintf(format, args) == [fmt |-> format, args |-> args]

VmListFmt == "/vmware/vm?primary_cluster_id=local&is_relic=false&name=%s"
SlaListFmt == "/sla_domain?primary_cluster_id=local&name=%s"
VmwareHostListFmt == "/vmware/host?primary_cluster_id=local"
HostListFmt == "/host?primary_cluster_id=local&hostname=%s"
TemplateListFmt == "/fileset_template?primary_cluster_id=local&operating_system_type=%s&name=%s"
VolumeListFmt == "/managed_volume?is_relic=false&primary_cluster_id=local&name=%s"
VmFmt == "/vmware/vm/%s"
AssignFmt == "/sla_domain/%s/assign"
VolumeFmt == "/managed_volume/%s"
BeginFmt == "/managed_volume/%s/begin_snapshot"
EndFmt == "/managed_volume/%s/end_snapshot"
VmSnapshotFmt == "/vmware/vm/%s/snapshot"
FilesetListFmt == "/fileset?primary_cluster_id=local&host_id=%s&is_relic=false&template_id=%s"
FilesetSnapshotFmt == "/fileset/%s/snapshot"

----------------------------------------------------------------------------
(* Decoded JSON values: a number is a float64 inside an interface{} *)

Float64(n) == [t |-> "float64", v |-> n]

\* iface == k with k an untyped integer constant: the constant becomes an int, and
\* two interface values are equal only when their dynamic types are identical
IfaceEqInt(x, k) == x.t = "int" /\ x.v = k

\* m[key].(T): the value is there and has the asserted type
HasField(m, key) == key \in DOMAIN m

EmptyMap == [k \in {} |-> ""]

----------------------------------------------------------------------------
(* The cluster behind the transport: the objects it holds *)

UniqueName == "a"
DupName == "ab"
InfixName == "b"
AbsentName == "zz"

\* the name filter of a list endpoint is an infix search
IsInfix(q, n) == q = n \/ (n = DupName /\ q \in {UniqueName, InfixName})

IdPrefix(objectType) ==
  CASE objectType = "vmware" -> "vm-"
    [] objectType = "sla" -> "sla-"
    [] objectType = "vmwareHost" -> "vhost-"
    [] objectType = "physicalHost" -> "host-"
    [] objectType = "managedVolume" -> "mv-"
    [] OTHER -> "obj-"

LayoutName(i) == IF i = 1 THEN UniqueName ELSE DupName

ObjectIdOf(objectType, i) == IdPrefix(objectType) \o ToString(i)
TemplateIdOf(os, i) == "ft-" \o os \o "-" \o ToString(i)

Catalog(objectType) ==
  IF objectType = "physicalHost"
  THEN [i \in 1..(1 + NumDup) |-> [id |-> ObjectIdOf(objectType, i), hostname |-> LayoutName(i)]]
  ELSE [i \in 1..(1 + NumDup) |-> [id |-> ObjectIdOf(objectType, i), name |-> LayoutName(i)]]

Templates(os) ==
  IF os \in ValidHostOs
  THEN [i \in 1..(1 + NumDup) |-> [id |-> TemplateIdOf(os, i), name |-> LayoutName(i)]]
  ELSE <<>>

VmIds == {ObjectIdOf("vmware", i) : i \in 1..(1 + NumDup)}
SlaIds == {ObjectIdOf("sla", i) : i \in 1..(1 + NumDup)}
VolumeIds == {ObjectIdOf("managedVolume", i) : i \in 1..(1 + NumDup)}

\* the fileset instances: the unique host has the unique Linux template, and no Windows one
Filesets ==
  << [id |-> "fs-1", hostId |-> ObjectIdOf("physicalHost", 1), templateId |-> TemplateIdOf("Linux", 1),
      effectiveSlaDomainId |-> ObjectIdOf("sla", 1)] >>

\* the SLA a VM inherits once its own assignment is cleared
ParentSla == "UNPROTECTED"

ListResponse(data) == [total |-> Float64(Len(data)), data |-> data]

Remote == [isWritable |-> isWritable, blackout |-> blackout,
           effectiveSla |-> effectiveSla, configuredSla |-> configuredSla, shape |-> shape]

VmSummary(R, id) ==
  [id |-> id, effectiveSlaDomainId |-> R.effectiveSla[id], configuredSlaDomainId |-> R.configuredSla[id],
   blackoutWindowStatus |-> [isSnappableBlackoutActive |-> R.blackout[id]]]

VolumeSummary(R, id) == [id |-> id, isWritable |-> R.isWritable[id]]

JobLinks(id) == [links |-> << [href |-> "/request/" \o id, rel |-> "self"] >>]

NotServed == [ok |-> FALSE, resp |-> [message |-> "error"]]
Served(resp) == [ok |-> TRUE, resp |-> resp]

\* what the cluster answers to GET version endpoint
ServerGet(R, version, endpoint) ==
  LET f == endpoint.fmt
      a == endpoint.args
  IN CASE f = VmListFmt /\ version = "v1" ->
            Served(ListResponse(SelectSeq(Catalog("vmware"), LAMBDA o : IsInfix(a[1], o.name))))
       [] f = SlaListFmt /\ version = "v1" ->
            Served(ListResponse(SelectSeq(Catalog("sla"), LAMBDA o : IsInfix(a[1], o.name))))
       [] f = VmwareHostListFmt /\ version = "v1" ->
            Served(ListResponse(Catalog("vmwareHost")))
       [] f = HostListFmt /\ version = "v1" ->
            Served(ListResponse(SelectSeq(Catalog("physicalHost"), LAMBDA o : IsInfix(a[1], o.hostname))))
       [] f = TemplateListFmt /\ version = "v1" ->
            Served(ListResponse(SelectSeq(Templates(a[1]), LAMBDA o : IsInfix(a[2], o.name))))
       [] f = VolumeListFmt /\ version = "internal" ->
            Served(ListResponse(SelectSeq(Catalog("managedVolume"), LAMBDA o : IsInfix(a[1], o.name))))
       [] f = VmFmt /\ version = "v1" /\ a[1] \in VmIds -> Served(VmSummary(R, a[1]))
       [] f = VolumeFmt /\ version = "internal" /\ a[1] \in VolumeIds -> Served(VolumeSummary(R, a[1]))
       [] f = FilesetListFmt /\ version = "v1" ->
            Served(ListResponse(SelectSeq(Filesets, LAMBDA o : o.hostId = a[1] /\ o.templateId = a[2])))
       [] OTHER -> NotServed

\* what the cluster answers to POST/PATCH version endpoint with body config
ServerMutate(R, method, version, endpoint, config) ==
  LET f == endpoint.fmt
      a == endpoint.args
  IN CASE method = "POST" /\ f = AssignFmt /\ version = "internal"
            /\ a[1] \in SlaIds \cup {"UNPROTECTED", "INHERIT"}
            /\ DOMAIN config = {"managedIds"} ->
            Served([assigned |-> config.managedIds])
       [] method = "POST" /\ f = BeginFmt /\ version = "internal" /\ a[1] \in VolumeIds ->
            Served([snapshotId |-> "snap-" \o a[1]])
       [] method = "POST" /\ f = EndFmt /\ version = "internal" /\ a[1] \in VolumeIds ->
            Served([id |-> "snap-" \o a[1]])
       [] method = "PATCH" /\ f = VmFmt /\ version = "v1" /\ a[1] \in VmIds
            /\ DOMAIN config = {"isVmPaused"} ->
            Served(VmSummary([R EXCEPT !.blackout[a[1]] = config.isVmPaused], a[1]))
       [] method = "POST" /\ f = VmSnapshotFmt /\ version = "v1" /\ a[1] \in VmIds ->
            Served(JobLinks(a[1]))
       [] method = "POST" /\ f = FilesetSnapshotFmt /\ version = "v1" /\ a[1] = Filesets[1].id ->
            Served(JobLinks(a[1]))
       [] OTHER -> NotServed

----------------------------------------------------------------------------
(* The transport collaborator: c.Get, c.Post, c.Patch.  n is the number of  *)
(* transport calls the invocation has made so far.                          *)

\* the fields an operation looks for in a response, one of which a cluster may not send
WellFormed == "none"
ShapeFields == {"total", "data", "id", "isWritable", "blackoutWindowStatus",
                "effectiveSlaDomainId", "links"}

Without(m, field) == [k \in DOMAIN m \ {field} |-> m[k]]

\* the decoded response of a cluster whose responses lack field: the field is missing
\* from the response and from the candidates of a list, and a links list is empty
Misshapen(resp, field) ==
  IF field = WellFormed THEN resp
  ELSE IF field = "links"
  THEN IF HasField(resp, "links") THEN [resp EXCEPT !.links = <<>>] ELSE resp
  ELSE IF HasField(resp, field) THEN Without(resp, field)
  ELSE IF HasField(resp, "data")
  THEN [resp EXCEPT !.data = [i \in DOMAIN @ |-> IF HasField(@[i], field)
                                                 THEN Without(@[i], field) ELSE @[i]]]
  ELSE resp

Transport(R, n, failAt, method, version, endpoint, config, timeout) ==
  LET served == IF method = "GET" THEN ServerGet(R, version, endpoint)
                ELSE ServerMutate(R, method, version, endpoint, config)
      ok == (n + 1 # failAt) /\ served.ok
  IN [method |-> method, version |-> version, endpoint |-> endpoint, config |-> config,
      timeout |-> timeout, ok |-> ok,
      resp |-> IF ok THEN Misshapen(served.resp, R.shape) ELSE NotServed.resp]

Get(R, n, failAt, version, endpoint, timeout) ==
  Transport(R, n, failAt, "GET", version, endpoint, EmptyMap, timeout)

Post(R, n, failAt, version, endpoint, config, timeout) ==
  Transport(R, n, failAt, "POST", version, endpoint, config, timeout)

Patch(R, n, failAt, version, endpoint, config, timeout) ==
  Transport(R, n, failAt, "PATCH", version, endpoint, config, timeout)

\* httpTimeout(timeout): the caller's value, or the base default
HttpTimeout(timeout) == IF Len(timeout) > 0 THEN timeout[1] ELSE DefaultTimeout

----------------------------------------------------------------------------
(* ObjectID *)

ObjectSummaryAPIVersion(objectType) ==
  IF objectType = "managedVolume" THEN "internal" ELSE "v1"

ObjectSummaryAPIEndpoint(objectType, objectName, hostOS) ==
  CASE objectType = "vmware" -> Sprintf(VmListFmt, <<objectName>>)
    [] objectType = "sla" -> Sprintf(SlaListFmt, <<objectName>>)
    [] objectType = "vmwareHost" -> Sprintf(VmwareHostListFmt, <<>>)
    [] objectType = "physicalHost" -> Sprintf(HostListFmt, <<objectName>>)
    [] objectType = "filesetTemplate" -> Sprintf(TemplateListFmt, <<hostOS[1], objectName>>)
    [] objectType = "managedVolume" -> Sprintf(VolumeListFmt, <<objectName>>)

\* faulty variant: the name field of the other types read for physical hosts too
NameValueAlwaysName(objectType) == "name"

NameValue(objectType) == IF objectType = "physicalHost" THEN "hostname" ELSE "name"

\* the ids of the candidates whose name field equals objectName, in order
RECURSIVE MatchingIDs(_, _, _)
MatchingIDs(data, nameValue, objectName) ==
  IF data = <<>> THEN <<>>
  ELSE LET v == Head(data)
           rest == MatchingIDs(Tail(data), nameValue, objectName)
       IN IF v[nameValue] = objectName THEN <<v.id>> \o rest ELSE rest

\* a candidate the loop cannot read: v[nameValue].(string) or v["id"].(string) panics
RECURSIVE LoopPanics(_, _, _)
LoopPanics(data, nameValue, objectName) ==
  IF data = <<>> THEN FALSE
  ELSE LET v == Head(data)
       IN \/ ~HasField(v, nameValue)
          \/ (v[nameValue] = objectName /\ ~HasField(v, "id"))
          \/ LoopPanics(Tail(data), nameValue, objectName)

ObjOut(id, err, cs, panic) == [id |-> id, err |-> err, calls |-> cs, panic |-> panic]

\* faulty variant: the first match is taken when there are several
PickFirstObjectID(objectIDs, cs) ==
  IF Len(objectIDs) = 0 THEN [id |-> "", err |-> ErrNotFound, calls |-> cs, panic |-> FALSE]
  ELSE [id |-> objectIDs[1], err |-> Nil, calls |-> cs, panic |-> FALSE]

\* faulty variant: no check for an empty list of matches before objectIDs[0] is read
PickObjectIDUnchecked(objectIDs, cs) ==
  IF Len(objectIDs) > 1 THEN [id |-> "", err |-> ErrMultiple, calls |-> cs, panic |-> FALSE]
  ELSE IF Len(objectIDs) = 0 THEN [id |-> "", err |-> Nil, calls |-> cs, panic |-> TRUE]
  ELSE [id |-> objectIDs[1], err |-> Nil, calls |-> cs, panic |-> FALSE]

\* lines 99-105: one identifier, or the failure that says why there is none
PickObjectID(objectIDs, cs) ==
  IF Len(objectIDs) > 1 THEN ObjOut("", ErrMultiple, cs, FALSE)
  ELSE IF Len(objectIDs) = 0 THEN ObjOut("", ErrNotFound, cs, FALSE)
  ELSE ObjOut(objectIDs[1], Nil, cs, FALSE)

\* lines 81-108: what ObjectID makes of the list response
ResolveResponse(apiRequest, objectName, objectType, cs) ==
  IF ~HasField(apiRequest, "total") THEN ObjOut("", Nil, cs, TRUE)
  ELSE IF IfaceEqInt(apiRequest.total, 0) THEN ObjOut("", ErrNotFound, cs, FALSE)
  ELSE IF apiRequest.total.t # "float64" THEN ObjOut("", Nil, cs, TRUE)
  ELSE IF apiRequest.total.v > 0
  THEN IF ~HasField(apiRequest, "data") \/ LoopPanics(apiRequest.data, NameValue(objectType), objectName)
       THEN ObjOut("", Nil, cs, TRUE)
       ELSE PickObjectID(MatchingIDs(apiRequest.data, NameValue(objectType), objectName), cs)
  ELSE ObjOut("", ErrNotFound, cs, FALSE)

\* lines 77-80: the list query, and its error returned as it is
ObjectIDQueried(call, objectName, objectType) ==
  IF ~call.ok THEN ObjOut("", ErrTransport, <<call>>, FALSE)
  ELSE ResolveResponse(call.resp, objectName, objectType, <<call>>)

ObjectID(R, n, failAt, objectName, objectType, hostOS) ==
  IF objectType \notin ValidObjectType THEN ObjOut("", ErrObjectType, <<>>, FALSE)
  ELSE IF objectType = "filesetTemplate" /\ Len(hostOS) > 0 /\ hostOS[1] \notin {"Linux", "Windows"}
  THEN ObjOut("", ErrHostOSValue, <<>>, FALSE)
  ELSE IF objectType = "filesetTemplate" /\ Len(hostOS) = 0
  THEN ObjOut("", ErrNoHostOS, <<>>, FALSE)
  ELSE ObjectIDQueried(Get(R, n, failAt, ObjectSummaryAPIVersion(objectType),
                           ObjectSummaryAPIEndpoint(objectType, objectName, hostOS), <<>>),
                       objectName, objectType)

----------------------------------------------------------------------------
(* What an invocation leaves behind *)

RetNil == [kind |-> "nil"]
RetMsg(m) == [kind |-> "msg", msg |-> m]
RetResp(r) == [kind |-> "resp", resp |-> r]
RetString(s) == [kind |-> "string", s |-> s]

Out(ret, err, cs, panic) == [ret |-> ret, err |-> err, calls |-> cs, panic |-> panic]

NoArgs == [objectName |-> "", objectType |-> "", slaName |-> "", fileset |-> "",
           hostOS |-> <<>>, timeout |-> <<>>]

Idle == [op |-> "idle", args |-> NoArgs, ret |-> RetNil, err |-> Nil, panic |-> FALSE]

\* the cluster after a served mutating call
ApplyCall(R, c) ==
  LET f == c.endpoint.fmt
      a == c.endpoint.args
  IN IF c.method = "GET" \/ ~c.ok THEN R
     ELSE CASE f = AssignFmt ->
                 [R EXCEPT !.configuredSla = [v \in VmIds |->
                                IF v \in {c.config.managedIds[i] : i \in DOMAIN c.config.managedIds}
                                THEN a[1] ELSE @[v]],
                           !.effectiveSla = [v \in VmIds |->
                                IF v \in {c.config.managedIds[i] : i \in DOMAIN c.config.managedIds}
                                THEN (IF a[1] = "INHERIT" THEN ParentSla ELSE a[1]) ELSE @[v]]]
            [] f = BeginFmt -> [R EXCEPT !.isWritable[a[1]] = TRUE]
            [] f = EndFmt -> [R EXCEPT !.isWritable[a[1]] = FALSE]
            [] f = VmFmt -> [R EXCEPT !.blackout[a[1]] = c.config.isVmPaused]
            [] OTHER -> R

RECURSIVE ApplyCalls(_, _)
ApplyCalls(R, cs) == IF cs = <<>> THEN R ELSE ApplyCalls(ApplyCall(R, Head(cs)), Tail(cs))

\* the invocation is over: its calls have reached the cluster, its result the caller
Finish(op, args, out) ==
  LET R2 == ApplyCalls(Remote, out.calls)
  IN /\ calls' = out.calls
     /\ result' = [op |-> op, args |-> args, ret |-> out.ret, err |-> out.err, panic |-> out.panic]
     /\ isWritable' = R2.isWritable
     /\ blackout' = R2.blackout
     /\ effectiveSla' = R2.effectiveSla
     /\ configuredSla' = R2.configuredSla
     /\ UNCHANGED <<shape, prev, inv>>

----------------------------------------------------------------------------
(* The operations.  Each is written as the chain of its steps: a step takes  *)
(* what the steps before it computed (cs: the transport calls made so far)   *)
(* and either returns or hands over to the next step.                        *)

\* apiRequest, err := c.Post/Patch(...); if err != nil { return nil, err }; return apiRequest, nil
ReturnResponse(cs, call) ==
  IF ~call.ok THEN Out(RetNil, ErrTransport, Append(cs, call), FALSE)
  ELSE Out(RetResp(call.resp), Nil, Append(cs, call), FALSE)

\* "Change the default to 180"
SlowTimeout(httpTimeout) == IF httpTimeout = DefaultTimeout THEN LongTimeout ELSE httpTimeout

----------------------------------------------------------------------------
(* AssignSLA *)

\* lines 131-142: the default case declares a new slaID with ':=', so the resolved
\* identifier stays in the case clause and the function's slaID keeps its zero value
AssignSlaID(slaName, resolved) ==
  CASE slaName = "do not protect" -> "UNPROTECTED"
    [] slaName = "clear" -> "INHERIT"
    [] OTHER -> ""

\* lines 157-163: the field of the summary the desired SLA is compared with
CurrentSLAField(slaID) ==
  IF slaID = "INHERIT" THEN "configuredSlaDomainId" ELSE "effectiveSlaDomainId"

AssignFetched(R, failAt, slaID, httpTimeout, vmID, cs, get) ==
  IF ~get.ok THEN Out(RetNil, ErrTransport, Append(cs, get), FALSE)
  ELSE IF ~HasField(get.resp, CurrentSLAField(slaID)) THEN Out(RetNil, Nil, Append(cs, get), TRUE)
  ELSE IF slaID = get.resp[CurrentSLAField(slaID)] THEN Out(RetMsg(MsgAssigned), Nil, Append(cs, get), FALSE)
  ELSE ReturnResponse(Append(cs, get),
                      Post(R, Len(cs) + 1, failAt, "internal", Sprintf(AssignFmt, <<slaID>>),
                           [managedIds |-> <<vmID>>], <<httpTimeout>>))

AssignResolvedVM(R, failAt, slaID, httpTimeout, cs, vm) ==
  IF vm.panic \/ vm.err # Nil THEN Out(RetNil, vm.err, cs \o vm.calls, vm.panic)
  ELSE AssignFetched(R, failAt, slaID, httpTimeout, vm.id, cs \o vm.calls,
                     Get(R, Len(cs) + Len(vm.calls), failAt, "v1", Sprintf(VmFmt, <<vm.id>>),
                         <<httpTimeout>>))

AssignResolvedSLA(R, failAt, objectName, slaName, httpTimeout, sla) ==
  IF sla.panic \/ sla.err # Nil THEN Out(RetNil, sla.err, sla.calls, sla.panic)
  ELSE AssignResolvedVM(R, failAt, AssignSlaID(slaName, sla.id), httpTimeout, sla.calls,
                        ObjectID(R, Len(sla.calls), failAt, objectName, "vmware", <<>>))

AssignSLA(R, failAt, objectName, objectType, slaName, timeout) ==
  IF objectType # "vmware" THEN Out(RetNil, ErrMustBeVmware, <<>>, FALSE)
  ELSE AssignResolvedSLA(R, failAt, objectName, slaName, HttpTimeout(timeout),
                         IF slaName \in {"do not protect", "clear"} THEN ObjOut("", Nil, <<>>, FALSE)
                         ELSE ObjectID(R, 0, failAt, slaName, "sla", <<>>))

----------------------------------------------------------------------------
(* BeginManagedVolumeSnapshot *)

\* faulty variant: the summary's isWritable is not looked at
BeginFetchedUnguarded(R, failAt, httpTimeout, managedVolumeID, cs, get) ==
  IF ~get.ok THEN Out(RetNil, ErrTransport, Append(cs, get), FALSE)
  ELSE ReturnResponse(Append(cs, get),
                      Post(R, Len(cs) + 1, failAt, "internal", Sprintf(BeginFmt, <<managedVolumeID>>),
                           EmptyMap, <<httpTimeout>>))

BeginFetched(R, failAt, httpTimeout, managedVolumeID, cs, get) ==
  IF ~get.ok THEN Out(RetNil, ErrTransport, Append(cs, get), FALSE)
  ELSE IF ~HasField(get.resp, "isWritable") THEN Out(RetNil, Nil, Append(cs, get), TRUE)
  ELSE IF get.resp.isWritable THEN Out(RetMsg(MsgWritable), Nil, Append(cs, get), FALSE)
  ELSE ReturnResponse(Append(cs, get),
                      Post(R, Len(cs) + 1, failAt, "internal", Sprintf(BeginFmt, <<managedVolumeID>>),
                           EmptyMap, <<httpTimeout>>))

BeginResolved(R, failAt, httpTimeout, mv) ==
  IF mv.panic \/ mv.err # Nil THEN Out(RetNil, mv.err, mv.calls, mv.panic)
  ELSE BeginFetched(R, failAt, httpTimeout, mv.id, mv.calls,
                    Get(R, Len(mv.calls), failAt, "internal", Sprintf(VolumeFmt, <<mv.id>>),
                        <<httpTimeout>>))

BeginManagedVolumeSnapshot(R, failAt, name, timeout) ==
  BeginResolved(R, failAt, HttpTimeout(timeout), ObjectID(R, 0, failAt, name, "managedVolume", <<>>))

----------------------------------------------------------------------------
(* EndManagedVolumeSnapshot *)

\* lines 251-253: the error of the Post is assigned and never read
EndPosted(cs, post) ==
  IF post.ok THEN Out(RetResp(post.resp), Nil, Append(cs, post), FALSE)
  ELSE Out(RetNil, Nil, Append(cs, post), FALSE)

\* faulty variant: the error of the SLA resolution is not checked before the Post
EndResolvedSLAUnchecked(R, failAt, httpTimeout, managedVolumeID, cs, sla) ==
  IF sla.panic THEN Out(RetNil, sla.err, cs \o sla.calls, sla.panic)
  ELSE EndPosted(cs \o sla.calls,
                 Post(R, Len(cs) + Len(sla.calls), failAt, "internal",
                      Sprintf(EndFmt, <<managedVolumeID>>),
                      [retentionConfig |-> [slaId |-> sla.id]], <<httpTimeout>>))

EndResolvedSLA(R, failAt, httpTimeout, managedVolumeID, cs, sla) ==
  IF sla.panic \/ sla.err # Nil THEN Out(RetNil, sla.err, cs \o sla.calls, sla.panic)
  ELSE EndPosted(cs \o sla.calls,
                 Post(R, Len(cs) + Len(sla.calls), failAt, "internal",
                      Sprintf(EndFmt, <<managedVolumeID>>),
                      [retentionConfig |-> [slaId |-> sla.id]], <<httpTimeout>>))

\* faulty variant: the summary's isWritable is not looked at
EndFetchedUnguarded(R, failAt, slaName, httpTimeout, managedVolumeID, cs, get) ==
  IF ~get.ok THEN Out(RetNil, ErrTransport, Append(cs, get), FALSE)
  ELSE IF slaName = "current"
  THEN EndPosted(Append(cs, get),
                 Post(R, Len(cs) + 1, failAt, "internal", Sprintf(EndFmt, <<managedVolumeID>>),
                      EmptyMap, <<httpTimeout>>))
  ELSE EndResolvedSLA(R, failAt, httpTimeout, managedVolumeID, Append(cs, get),
                      ObjectID(R, Len(cs) + 1, failAt, slaName, "sla", <<>>))

EndFetched(R, failAt, slaName, httpTimeout, managedVolumeID, cs, get) ==
  IF ~get.ok THEN Out(RetNil, ErrTransport, Append(cs, get), FALSE)
  ELSE IF ~HasField(get.resp, "isWritable") THEN Out(RetNil, Nil, Append(cs, get), TRUE)
  ELSE IF get.resp.isWritable = FALSE THEN Out(RetMsg(MsgReadOnly), Nil, Append(cs, get), FALSE)
  ELSE IF slaName = "current"
  THEN EndPosted(Append(cs, get),
                 Post(R, Len(cs) + 1, failAt, "internal", Sprintf(EndFmt, <<managedVolumeID>>),
                      EmptyMap, <<httpTimeout>>))
  ELSE EndResolvedSLA(R, failAt, httpTimeout, managedVolumeID, Append(cs, get),
                      ObjectID(R, Len(cs) + 1, failAt, slaName, "sla", <<>>))

EndResolved(R, failAt, slaName, httpTimeout, mv) ==
  IF mv.panic \/ mv.err # Nil THEN Out(RetNil, mv.err, mv.calls, mv.panic)
  ELSE EndFetched(R, failAt, slaName, httpTimeout, mv.id, mv.calls,
                  Get(R, Len(mv.calls), failAt, "internal", Sprintf(VolumeFmt, <<mv.id>>),
                      <<httpTimeout>>))

EndManagedVolumeSnapshot(R, failAt, name, slaName, timeout) ==
  EndResolved(R, failAt, slaName, HttpTimeout(timeout),
              ObjectID(R, 0, failAt, name, "managedVolume", <<>>))

----------------------------------------------------------------------------
(* PauseSnapshot / ResumeSnapshot *)

\* vmSummary["blackoutWindowStatus"].(map)["isSnappableBlackoutActive"].(bool)
BlackoutReadable(vmSummary) ==
  /\ HasField(vmSummary, "blackoutWindowStatus")
  /\ HasField(vmSummary.blackoutWindowStatus, "isSnappableBlackoutActive")

BlackoutActive(vmSummary) == vmSummary.blackoutWindowStatus.isSnappableBlackoutActive

\* faulty variant: the summary's blackout flag is not looked at
PauseFetchedUnguarded(R, failAt, httpTimeout, vmID, cs, get) ==
  IF ~get.ok THEN Out(RetNil, ErrTransport, Append(cs, get), FALSE)
  ELSE ReturnResponse(Append(cs, get),
                      Patch(R, Len(cs) + 1, failAt, "v1", Sprintf(VmFmt, <<vmID>>),
                            [isVmPaused |-> TRUE], <<httpTimeout>>))

PauseFetched(R, failAt, httpTimeout, vmID, cs, get) ==
  IF ~get.ok THEN Out(RetNil, ErrTransport, Append(cs, get), FALSE)
  ELSE IF ~BlackoutReadable(get.resp) THEN Out(RetNil, Nil, Append(cs, get), TRUE)
  ELSE IF BlackoutActive(get.resp) THEN Out(RetMsg(MsgPaused), Nil, Append(cs, get), FALSE)
  ELSE ReturnResponse(Append(cs, get),
                      Patch(R, Len(cs) + 1, failAt, "v1", Sprintf(VmFmt, <<vmID>>),
                            [isVmPaused |-> TRUE], <<httpTimeout>>))

PauseResolved(R, failAt, httpTimeout, vm) ==
  IF vm.panic \/ vm.err # Nil THEN Out(RetNil, vm.err, vm.calls, vm.panic)
  ELSE PauseFetched(R, failAt, httpTimeout, vm.id, vm.calls,
                    Get(R, Len(vm.calls), failAt, "v1", Sprintf(VmFmt, <<vm.id>>), <<httpTimeout>>))

PauseSnapshot(R, failAt, objectName, objectType, timeout) ==
  IF objectType # "vmware" THEN Out(RetNil, ErrMustBeVmware, <<>>, FALSE)
  ELSE PauseResolved(R, failAt, SlowTimeout(HttpTimeout(timeout)),
                     ObjectID(R, 0, failAt, objectName, "vmware", <<>>))

\* faulty variant: the body of PauseSnapshot copied with its flag
ResumeFetchedPausing(R, failAt, httpTimeout, vmID, cs, get) ==
  IF ~get.ok THEN Out(RetNil, ErrTransport, Append(cs, get), FALSE)
  ELSE IF ~BlackoutReadable(get.resp) THEN Out(RetNil, Nil, Append(cs, get), TRUE)
  ELSE IF BlackoutActive(get.resp) = FALSE THEN Out(RetMsg(MsgNotPaused), Nil, Append(cs, get), FALSE)
  ELSE ReturnResponse(Append(cs, get),
                      Patch(R, Len(cs) + 1, failAt, "v1", Sprintf(VmFmt, <<vmID>>),
                            [isVmPaused |-> TRUE], <<httpTimeout>>))

ResumeFetched(R, failAt, httpTimeout, vmID, cs, get) ==
  IF ~get.ok THEN Out(RetNil, ErrTransport, Append(cs, get), FALSE)
  ELSE IF ~BlackoutReadable(get.resp) THEN Out(RetNil, Nil, Append(cs, get), TRUE)
  ELSE IF BlackoutActive(get.resp) = FALSE THEN Out(RetMsg(MsgNotPaused), Nil, Append(cs, get), FALSE)
  ELSE ReturnResponse(Append(cs, get),
                      Patch(R, Len(cs) + 1, failAt, "v1", Sprintf(VmFmt, <<vmID>>),
                            [isVmPaused |-> FALSE], <<httpTimeout>>))

ResumeResolved(R, failAt, httpTimeout, vm) ==
  IF vm.panic \/ vm.err # Nil THEN Out(RetNil, vm.err, vm.calls, vm.panic)
  ELSE ResumeFetched(R, failAt, httpTimeout, vm.id, vm.calls,
                     Get(R, Len(vm.calls), failAt, "v1", Sprintf(VmFmt, <<vm.id>>), <<httpTimeout>>))

ResumeSnapshot(R, failAt, objectName, objectType, timeout) ==
  IF objectType # "vmware" THEN Out(RetNil, ErrMustBeVmware, <<>>, FALSE)
  ELSE ResumeResolved(R, failAt, SlowTimeout(HttpTimeout(timeout)),
                      ObjectID(R, 0, failAt, objectName, "vmware", <<>>))

----------------------------------------------------------------------------
(* OnDemandSnapshotVM *)

\* apiRequest["links"].([]interface{})[0].(map[string]interface{})["href"].(string)
FirstHrefReadable(apiRequest) ==
  /\ HasField(apiRequest, "links")
  /\ Len(apiRequest.links) > 0
  /\ HasField(apiRequest.links[1], "href")

FirstHref(apiRequest) == apiRequest.links[1].href

\* apiRequest, err := c.Post(...); if err != nil { return "", err }; return the first href
ReturnFirstHref(cs, post) ==
  IF ~post.ok THEN Out(RetString(""), ErrTransport, Append(cs, post), FALSE)
  ELSE IF ~FirstHrefReadable(post.resp) THEN Out(RetString(""), Nil, Append(cs, post), TRUE)
  ELSE Out(RetString(FirstHref(post.resp)), Nil, Append(cs, post), FALSE)

\* slaID is an interface{}: the VM summary (a map) for "current", the string ObjectID
\* returned otherwise
IfaceMap(m) == [t |-> "map", v |-> m]
IfaceString(str) == [t |-> "string", v |-> str]

\* slaID.(map[string]interface{})["effectiveSlaDomainId"].(string)
SlaIdReadable(slaID) == slaID.t = "map" /\ HasField(slaID.v, "effectiveSlaDomainId")

\* faulty variant: the configured SLA id is sent instead of the effective one
VMSnapshotTriggerConfigured(R, failAt, httpTimeout, vmID, cs, slaID) ==
  IF slaID.t # "map" \/ ~HasField(slaID.v, "configuredSlaDomainId") THEN Out(RetString(""), Nil, cs, TRUE)
  ELSE ReturnFirstHref(cs, Post(R, Len(cs), failAt, "v1", Sprintf(VmSnapshotFmt, <<vmID>>),
                                [slaId |-> slaID.v.configuredSlaDomainId], <<httpTimeout>>))

VMSnapshotTrigger(R, failAt, httpTimeout, vmID, cs, slaID) ==
  IF ~SlaIdReadable(slaID) THEN Out(RetString(""), Nil, cs, TRUE)
  ELSE ReturnFirstHref(cs, Post(R, Len(cs), failAt, "v1", Sprintf(VmSnapshotFmt, <<vmID>>),
                                [slaId |-> slaID.v.effectiveSlaDomainId], <<httpTimeout>>))

VMSnapshotCurrent(R, failAt, httpTimeout, vmID, cs, get) ==
  IF ~get.ok THEN Out(RetString(""), ErrTransport, Append(cs, get), FALSE)
  ELSE VMSnapshotTrigger(R, failAt, httpTimeout, vmID, Append(cs, get), IfaceMap(get.resp))

VMSnapshotNamed(R, failAt, httpTimeout, vmID, cs, sla) ==
  IF sla.panic \/ sla.err # Nil THEN Out(RetString(""), sla.err, cs \o sla.calls, sla.panic)
  ELSE VMSnapshotTrigger(R, failAt, httpTimeout, vmID, cs \o sla.calls, IfaceString(sla.id))

VMSnapshotResolved(R, failAt, slaName, httpTimeout, vm) ==
  IF vm.panic \/ vm.err # Nil THEN Out(RetString(""), vm.err, vm.calls, vm.panic)
  ELSE IF slaName = "current"
  THEN VMSnapshotCurrent(R, failAt, httpTimeout, vm.id, vm.calls,
                         Get(R, Len(vm.calls), failAt, "v1", Sprintf(VmFmt, <<vm.id>>), <<>>))
  ELSE VMSnapshotNamed(R, failAt, httpTimeout, vm.id, vm.calls,
                       ObjectID(R, Len(vm.calls), failAt, slaName, "sla", <<>>))

OnDemandSnapshotVM(R, failAt, objectName, objectType, slaName, timeout) ==
  IF objectType # "vmware" THEN Out(RetString(""), ErrMustBeVmware, <<>>, FALSE)
  ELSE VMSnapshotResolved(R, failAt, slaName, SlowTimeout(HttpTimeout(timeout)),
                          ObjectID(R, 0, failAt, objectName, "vmware", <<>>))

----------------------------------------------------------------------------
(* OnDemandSnapshotPhysical *)

\* line 506: filesetSummary["total"] == 0
NoFileset(filesetSummary) ==
  HasField(filesetSummary, "total") /\ IfaceEqInt(filesetSummary.total, 0)

\* data.([]interface{})[0].(map[string]interface{})[field].(string)
FirstReadable(filesetSummary, field) ==
  /\ HasField(filesetSummary, "data")
  /\ Len(filesetSummary.data) > 0
  /\ HasField(filesetSummary.data[1], field)

\* faulty variant: the snapshot is triggered before the error of the SLA resolution is
\* looked at
PhysicalTriggerUnchecked(R, failAt, httpTimeout, filesetID, cs, sla) ==
  IF sla.panic THEN Out(RetString(""), sla.err, cs \o sla.calls, sla.panic)
  ELSE ReturnFirstHref(cs \o sla.calls,
                       Post(R, Len(cs) + Len(sla.calls), failAt, "v1",
                            Sprintf(FilesetSnapshotFmt, <<filesetID>>), [slaId |-> sla.id],
                            <<httpTimeout>>))

PhysicalTrigger(R, failAt, httpTimeout, filesetID, cs, sla) ==
  IF sla.panic \/ sla.err # Nil THEN Out(RetString(""), sla.err, cs \o sla.calls, sla.panic)
  ELSE ReturnFirstHref(cs \o sla.calls,
                       Post(R, Len(cs) + Len(sla.calls), failAt, "v1",
                            Sprintf(FilesetSnapshotFmt, <<filesetID>>), [slaId |-> sla.id],
                            <<httpTimeout>>))

\* faulty variant: the fileset's own SLA is sent whatever slaName is
PhysicalFetchedOwnSla(R, failAt, slaName, httpTimeout, cs, get) ==
  IF ~get.ok THEN Out(RetString(""), ErrTransport, Append(cs, get), FALSE)
  ELSE IF NoFileset(get.resp) THEN Out(RetString(""), ErrNotAssigned, Append(cs, get), FALSE)
  ELSE IF ~FirstReadable(get.resp, "id") THEN Out(RetString(""), Nil, Append(cs, get), TRUE)
  ELSE IF ~FirstReadable(get.resp, "effectiveSlaDomainId")
  THEN Out(RetString(""), Nil, Append(cs, get), TRUE)
  ELSE PhysicalTrigger(R, failAt, httpTimeout, get.resp.data[1].id, Append(cs, get),
                       ObjOut(get.resp.data[1].effectiveSlaDomainId, Nil, <<>>, FALSE))

PhysicalFetched(R, failAt, slaName, httpTimeout, cs, get) ==
  IF ~get.ok THEN Out(RetString(""), ErrTransport, Append(cs, get), FALSE)
  ELSE IF NoFileset(get.resp) THEN Out(RetString(""), ErrNotAssigned, Append(cs, get), FALSE)
  ELSE IF ~FirstReadable(get.resp, "id") THEN Out(RetString(""), Nil, Append(cs, get), TRUE)
  ELSE IF slaName = "current"
  THEN IF ~FirstReadable(get.resp, "effectiveSlaDomainId")
       THEN Out(RetString(""), Nil, Append(cs, get), TRUE)
       ELSE PhysicalTrigger(R, failAt, httpTimeout, get.resp.data[1].id, Append(cs, get),
                            ObjOut(get.resp.data[1].effectiveSlaDomainId, Nil, <<>>, FALSE))
  ELSE PhysicalTrigger(R, failAt, httpTimeout, get.resp.data[1].id, Append(cs, get),
                       ObjectID(R, Len(cs) + 1, failAt, slaName, "sla", <<>>))

PhysicalResolvedTemplate(R, failAt, slaName, httpTimeout, hostID, cs, tmpl) ==
  IF tmpl.panic \/ tmpl.err # Nil THEN Out(RetString(""), tmpl.err, cs \o tmpl.calls, tmpl.panic)
  ELSE PhysicalFetched(R, failAt, slaName, httpTimeout, cs \o tmpl.calls,
                       Get(R, Len(cs) + Len(tmpl.calls), failAt, "v1",
                           Sprintf(FilesetListFmt, <<hostID, tmpl.id>>), <<>>))

PhysicalResolvedHost(R, failAt, slaName, fileset, hostOS, httpTimeout, host) ==
  IF host.panic \/ host.err # Nil THEN Out(RetString(""), host.err, host.calls, host.panic)
  ELSE PhysicalResolvedTemplate(R, failAt, slaName, httpTimeout, host.id, host.calls,
                                ObjectID(R, Len(host.calls), failAt, fileset, "filesetTemplate",
                                         <<hostOS>>))

\* faulty variant: hostOS is not validated before the host is resolved
OnDemandSnapshotPhysicalUnchecked(R, failAt, hostName, slaName, fileset, hostOS, timeout) ==
  PhysicalResolvedHost(R, failAt, slaName, fileset, hostOS, SlowTimeout(HttpTimeout(timeout)),
                       ObjectID(R, 0, failAt, hostName, "physicalHost", <<>>))

OnDemandSnapshotPhysical(R, failAt, hostName, slaName, fileset, hostOS, timeout) ==
  IF hostOS \notin ValidHostOs THEN Out(RetString(""), ErrHostOSPhysical, <<>>, FALSE)
  ELSE PhysicalResolvedHost(R, failAt, slaName, fileset, hostOS, SlowTimeout(HttpTimeout(timeout)),
                            ObjectID(R, 0, failAt, hostName, "physicalHost", <<>>))

----------------------------------------------------------------------------
(* Inputs *)

ObjectNames == {UniqueName, DupName, InfixName, AbsentName}
ObjectTypes == ValidObjectType \cup {"hyperv"}
HostOSArgs == {<<>>, <<"Linux">>, <<"Windows">>, <<"AIX">>}
TimeoutArgs == {<<>>, <<DefaultTimeout>>, <<DefaultTimeout * 2>>}
FailAts == 0..MaxFail
OpObjectNames == {UniqueName, DupName, AbsentName}
OpObjectTypes == {"vmware", "sla", "hyperv"}
SlaNames == {UniqueName, DupName, AbsentName, "do not protect", "clear", "current"}
HostOSValues == {"Linux", "Windows", "AIX"}

\* the object a name resolves to starts in any state, the others in a fixed one
StartsAs(ids, first, v, others) == [i \in ids |-> IF i = first THEN v ELSE others]

\* no invocation on record
NoPrev == [op |-> "idle", objectName |-> "", objectType |-> "", changed |-> FALSE]

Callers == 1..NumCallers

\* no transport call made
NoCall == [method |-> "", version |-> "", endpoint |-> Sprintf("", <<>>), config |-> EmptyMap,
           timeout |-> <<>>, ok |-> FALSE, resp |-> NotServed.resp]

\* a caller that is not inside an operation
Outside == [pc |-> "outside", op |-> "idle", objectName |-> "", resolved |-> ObjOut("", Nil, <<>>, FALSE),
            fetched |-> NoCall, late |-> FALSE, out |-> Out(RetNil, Nil, <<>>, FALSE)]

\* the cluster and its callers before the first call, the cluster's responses of shape s
StartedWith(s) ==
  /\ \E w \in BOOLEAN : isWritable = StartsAs(VolumeIds, ObjectIdOf("managedVolume", 1), w, FALSE)
  /\ \E b \in BOOLEAN : blackout = StartsAs(VmIds, ObjectIdOf("vmware", 1), b, FALSE)
  /\ \E e \in {ObjectIdOf("sla", 1), "UNPROTECTED"} :
       /\ effectiveSla = StartsAs(VmIds, ObjectIdOf("vmware", 1), e, "UNPROTECTED")
       /\ configuredSla = StartsAs(VmIds, ObjectIdOf("vmware", 1), e, "UNPROTECTED")
  /\ calls = <<>>
  /\ result = Idle
  /\ shape = s
  /\ prev = NoPrev
  /\ inv = [p \in Callers |-> Outside]

Init == StartedWith(WellFormed)

CallObjectID ==
  /\ result.op = "idle"
  /\ \E objectName \in ObjectNames, objectType \in ObjectTypes, hostOS \in HostOSArgs, failAt \in FailAts :
       LET o == ObjectID(Remote, 0, failAt, objectName, objectType, hostOS)
       IN Finish("ObjectID",
                 [NoArgs EXCEPT !.objectName = objectName, !.objectType = objectType, !.hostOS = hostOS],
                 Out(RetString(o.id), o.err, o.calls, o.panic))

CallAssignSLA ==
  /\ result.op = "idle"
  /\ \E objectName \in OpObjectNames, objectType \in OpObjectTypes, slaName \in SlaNames,
        timeout \in TimeoutArgs, failAt \in FailAts :
       Finish("AssignSLA",
              [NoArgs EXCEPT !.objectName = objectName, !.objectType = objectType,
                             !.slaName = slaName, !.timeout = timeout],
              AssignSLA(Remote, failAt, objectName, objectType, slaName, timeout))

CallBeginManagedVolumeSnapshot ==
  /\ result.op = "idle"
  /\ \E name \in OpObjectNames, timeout \in TimeoutArgs, failAt \in FailAts :
       Finish("BeginManagedVolumeSnapshot",
              [NoArgs EXCEPT !.objectName = name, !.timeout = timeout],
              BeginManagedVolumeSnapshot(Remote, failAt, name, timeout))

CallEndManagedVolumeSnapshot ==
  /\ result.op = "idle"
  /\ \E name \in OpObjectNames, slaName \in SlaNames, timeout \in TimeoutArgs, failAt \in FailAts :
       Finish("EndManagedVolumeSnapshot",
              [NoArgs EXCEPT !.objectName = name, !.slaName = slaName, !.timeout = timeout],
              EndManagedVolumeSnapshot(Remote, failAt, name, slaName, timeout))

CallPauseSnapshot ==
  /\ result.op = "idle"
  /\ \E objectName \in OpObjectNames, objectType \in OpObjectTypes, timeout \in TimeoutArgs,
        failAt \in FailAts :
       Finish("PauseSnapshot",
              [NoArgs EXCEPT !.objectName = objectName, !.objectType = objectType, !.timeout = timeout],
              PauseSnapshot(Remote, failAt, objectName, objectType, timeout))

CallResumeSnapshot ==
  /\ result.op = "idle"
  /\ \E objectName \in OpObjectNames, objectType \in OpObjectTypes, timeout \in TimeoutArgs,
        failAt \in FailAts :
       Finish("ResumeSnapshot",
              [NoArgs EXCEPT !.objectName = objectName, !.objectType = objectType, !.timeout = timeout],
              ResumeSnapshot(Remote, failAt, objectName, objectType, timeout))

CallOnDemandSnapshotVM ==
  /\ result.op = "idle"
  /\ \E objectName \in OpObjectNames, objectType \in OpObjectTypes, slaName \in SlaNames,
        timeout \in TimeoutArgs, failAt \in FailAts :
       Finish("OnDemandSnapshotVM",
              [NoArgs EXCEPT !.objectName = objectName, !.objectType = objectType,
                             !.slaName = slaName, !.timeout = timeout],
              OnDemandSnapshotVM(Remote, failAt, objectName, objectType, slaName, timeout))

CallOnDemandSnapshotPhysical ==
  /\ result.op = "idle"
  /\ \E hostName \in OpObjectNames, slaName \in SlaNames, fileset \in OpObjectNames,
        hostOS \in HostOSValues, timeout \in TimeoutArgs, failAt \in FailAts :
       Finish("OnDemandSnapshotPhysical",
              [NoArgs EXCEPT !.objectName = hostName, !.slaName = slaName, !.fileset = fileset,
                             !.hostOS = <<hostOS>>, !.timeout = timeout],
              OnDemandSnapshotPhysical(Remote, failAt, hostName, slaName, fileset, hostOS, timeout))

\* the caller takes the result; nothing is kept between calls
Return ==
  /\ result.op # "idle"
  /\ result' = Idle
  /\ calls' = <<>>
  /\ UNCHANGED <<isWritable, blackout, effectiveSla, configuredSla, shape, prev, inv>>

Next ==
  \/ CallObjectID
  \/ CallAssignSLA
  \/ CallBeginManagedVolumeSnapshot
  \/ CallEndManagedVolumeSnapshot
  \/ CallPauseSnapshot
  \/ CallResumeSnapshot
  \/ CallOnDemandSnapshotVM
  \/ CallOnDemandSnapshotPhysical
  \/ Return

Spec == Init /\ [][Next]_vars

\* the caller takes the result and, when the call went through (no transport call of
\* it failed, no error came back), keeps on record what it called and whether the
\* call changed the resource
ReturnOnRecord ==
  /\ result.op # "idle"
  /\ result' = Idle
  /\ calls' = <<>>
  /\ prev' = IF result.err = Nil /\ ~result.panic /\ (\A i \in DOMAIN calls : calls[i].ok)
             THEN [op |-> result.op, objectName |-> result.args.objectName,
                   objectType |-> result.args.objectType,
                   changed |-> \E i \in DOMAIN calls : calls[i].method \in {"POST", "PATCH"}]
             ELSE NoPrev
  /\ UNCHANGED <<isWritable, blackout, effectiveSla, configuredSla, shape, inv>>

\* the guarded transitions called one after the other
NextSeq ==
  \/ CallBeginManagedVolumeSnapshot
  \/ CallEndManagedVolumeSnapshot
  \/ CallPauseSnapshot
  \/ CallResumeSnapshot
  \/ ReturnOnRecord

SpecSeq == Init /\ [][NextSeq]_vars

----------------------------------------------------------------------------
(* Callers side by side.  Nothing in the operations locks or orders anything, *)
(* so an invocation of one caller runs between the transport calls of the     *)
(* other: each transport call is a step of its own.                           *)

ConcurrentOps == {"BeginManagedVolumeSnapshot", "PauseSnapshot"}

IsBegin(op) == op = "BeginManagedVolumeSnapshot"

\* lines 188 and 307-311: the timeout of an invocation that passes none
ConcTimeout(op) ==
  IF IsBegin(op) THEN HttpTimeout(<<>>) ELSE SlowTimeout(HttpTimeout(<<>>))

\* the resource is in the state the operation brings about
InTargetState(R, op, id) == IF IsBegin(op) THEN R.isWritable[id] ELSE R.blackout[id]

\* lines 190-193 and 323-326: caller p enters an operation and resolves the name; a
\* failed resolution is returned at once
ConcResolve(p) ==
  /\ inv[p].pc = "outside"
  /\ \E op \in ConcurrentOps, name \in OpObjectNames :
       LET o == ObjectID(Remote, 0, 0, name, IF IsBegin(op) THEN "managedVolume" ELSE "vmware", <<>>)
       IN inv' = [inv EXCEPT ![p] =
                    IF o.panic \/ o.err # Nil
                    THEN [Outside EXCEPT !.pc = "returned", !.op = op, !.objectName = name,
                                         !.resolved = o,
                                         !.out = IF IsBegin(op)
                                                 THEN BeginResolved(Remote, 0, ConcTimeout(op), o)
                                                 ELSE PauseResolved(Remote, 0, ConcTimeout(op), o)]
                    ELSE [Outside EXCEPT !.pc = "resolved", !.op = op, !.objectName = name,
                                         !.resolved = o]]
  /\ UNCHANGED <<isWritable, blackout, effectiveSla, configuredSla, calls, result, shape, prev>>

\* lines 195-198 and 328-331: the summary of the resource is fetched
ConcFetch(p) ==
  /\ inv[p].pc = "resolved"
  /\ inv' = [inv EXCEPT ![p].pc = "fetched",
                        ![p].fetched =
                          IF IsBegin(inv[p].op)
                          THEN Get(Remote, Len(inv[p].resolved.calls), 0, "internal",
                                   Sprintf(VolumeFmt, <<inv[p].resolved.id>>),
                                   <<ConcTimeout(inv[p].op)>>)
                          ELSE Get(Remote, Len(inv[p].resolved.calls), 0, "v1",
                                   Sprintf(VmFmt, <<inv[p].resolved.id>>),
                                   <<ConcTimeout(inv[p].op)>>)]
  /\ UNCHANGED <<isWritable, blackout, effectiveSla, configuredSla, calls, result, shape, prev>>

\* what the invocation of caller p does with the summary it fetched
ConcDecided(p) ==
  IF IsBegin(inv[p].op)
  THEN BeginFetched(Remote, 0, ConcTimeout(inv[p].op), inv[p].resolved.id,
                    inv[p].resolved.calls, inv[p].fetched)
  ELSE PauseFetched(Remote, 0, ConcTimeout(inv[p].op), inv[p].resolved.id,
                    inv[p].resolved.calls, inv[p].fetched)

\* the cluster once the calls of caller p's invocation have reached it
ConcApplied(p) == ApplyCalls(Remote, ConcDecided(p).calls)

\* lines 200-211 and 333-349: the summary fetched earlier decides between the no-op
\* message and the mutating call, which reaches the cluster as it is by now; late
\* records that the call reached a resource already in the target state
ConcDecide(p) ==
  /\ inv[p].pc = "fetched"
  /\ inv' = [inv EXCEPT ![p].pc = "returned",
                        ![p].out = ConcDecided(p),
                        ![p].late = /\ \E i \in DOMAIN ConcDecided(p).calls :
                                         ConcDecided(p).calls[i].method \in {"POST", "PATCH"}
                                    /\ InTargetState(Remote, inv[p].op, inv[p].resolved.id)]
  /\ isWritable' = ConcApplied(p).isWritable
  /\ blackout' = ConcApplied(p).blackout
  /\ effectiveSla' = ConcApplied(p).effectiveSla
  /\ configuredSla' = ConcApplied(p).configuredSla
  /\ UNCHANGED <<calls, result, shape, prev>>

\* the caller takes the result
ConcReturn(p) ==
  /\ inv[p].pc = "returned"
  /\ inv' = [inv EXCEPT ![p] = Outside]
  /\ UNCHANGED <<isWritable, blackout, effectiveSla, configuredSla, calls, result, shape, prev>>

NextConc ==
  \/ \E p \in Callers : ConcResolve(p)
  \/ \E p \in Callers : ConcFetch(p)
  \/ \E p \in Callers : ConcDecide(p)
  \/ \E p \in Callers : ConcReturn(p)

SpecConc == Init /\ [][NextConc]_vars

\* the same operations against a cluster whose responses lack one of the fields read
InitShape == \E s \in ShapeFields : StartedWith(s)

SpecShape == InitShape /\ [][Next]_vars

----------------------------------------------------------------------------
(* Reading the record of an invocation *)

Mutating(c) == c.method \in {"POST", "PATCH"}
MutatingCalls == {i \in DOMAIN calls : Mutating(calls[i])}

\* the i-th call of the invocation was made, and served
WasServed(i) == i \in DOMAIN calls /\ calls[i].ok

IsCall(i, method, version, format, args) ==
  /\ i \in DOMAIN calls
  /\ calls[i].method = method
  /\ calls[i].version = version
  /\ calls[i].endpoint = [fmt |-> format, args |-> args]

NameFieldOf(objectType) == IF objectType = "physicalHost" THEN "hostname" ELSE "name"

\* the candidates of list response i whose name field is exactly name
Exact(i, field, name) == SelectSeq(calls[i].resp.data, LAMBDA o : o[field] = name)

\* list call i resolves name to one identifier
Resolves(i, format, field, name) ==
  /\ WasServed(i)
  /\ calls[i].method = "GET"
  /\ calls[i].endpoint.fmt = format
  /\ Len(Exact(i, field, name)) = 1

ResolvedID(i, field, name) == Exact(i, field, name)[1].id

ObjectIDAnswered == result.op = "ObjectID" /\ Len(calls) = 1 /\ calls[1].ok

----------------------------------------------------------------------------
(* C1 *)

\* the desired SLA reference of an AssignSLA invocation that read the VM's summary at
\* call i equals the VM's current one
AssignAlreadyCurrent(i) ==
  /\ result.op = "AssignSLA"
  /\ result.args.objectType = "vmware"
  /\ WasServed(i)
  /\ calls[i].method = "GET"
  /\ calls[i].endpoint.fmt = VmFmt
  /\ \/ result.args.slaName = "do not protect" /\ calls[i].resp.effectiveSlaDomainId = "UNPROTECTED"
     \/ result.args.slaName = "clear" /\ calls[i].resp.configuredSlaDomainId = "INHERIT"
     \/ /\ result.args.slaName \notin {"do not protect", "clear"}
        /\ Resolves(1, SlaListFmt, "name", result.args.slaName)
        /\ calls[i].resp.effectiveSlaDomainId = ResolvedID(1, "name", result.args.slaName)

\* C1: AssignSLA issues no mutating call and returns the 'No change required' message
\* whenever the desired SLA reference equals the VM's current one (a named SLA whose
\* resolved id is the effective SLA id, "do not protect" with the effective id the
\* unprotect sentinel, "clear" with the configured id the inherit sentinel).
C1_NoChangeWhenCurrent ==
  \A i \in DOMAIN calls :
    AssignAlreadyCurrent(i) =>
      /\ MutatingCalls = {}
      /\ result.err = Nil
      /\ result.ret = RetMsg(MsgAssigned)

----------------------------------------------------------------------------
(* C2, C3, C4 *)

\* C2: when two or more candidates of the list response have a name field exactly
\* equal to the requested name, ObjectID returns the 'Multiple ... objects' error and
\* an empty identifier, for every object type.
C2_AmbiguousName ==
  (ObjectIDAnswered
     /\ Len(Exact(1, NameFieldOf(result.args.objectType), result.args.objectName)) >= 2)
  => /\ result.err = ErrMultiple
     /\ result.ret = RetString("")
     /\ ~result.panic

C2_Witness ==
  /\ ObjectIDAnswered
  /\ result.args.objectType = "physicalHost"
  /\ Len(Exact(1, "hostname", result.args.objectName)) >= 2
  /\ result.err = ErrMultiple

\* C3: when exactly one candidate of the list response has a name field exactly equal
\* to the requested name, ObjectID returns that candidate's id and no error, whatever
\* other candidates the response holds, for every object type.
C3_UniqueName ==
  (ObjectIDAnswered
     /\ Len(Exact(1, NameFieldOf(result.args.objectType), result.args.objectName)) = 1)
  => /\ result.err = Nil
     /\ result.ret = RetString(ResolvedID(1, NameFieldOf(result.args.objectType), result.args.objectName))
     /\ ~result.panic

C3_Witness ==
  /\ ObjectIDAnswered
  /\ result.args.objectType = "filesetTemplate"
  /\ result.args.hostOS = <<"Windows">>
  /\ Len(calls[1].resp.data) > 1
  /\ Len(Exact(1, "name", result.args.objectName)) = 1
  /\ result.ret = RetString(TemplateIdOf("Windows", 1))

\* C4: ObjectID returns the not-found error and an empty identifier both when the list
\* response reports a total of zero and when the total is positive and no candidate's
\* name field equals the requested name, for every object type.
C4_AbsentName ==
  (ObjectIDAnswered
     /\ calls[1].resp.total.v >= 0
     /\ Len(Exact(1, NameFieldOf(result.args.objectType), result.args.objectName)) = 0)
  => /\ result.err = ErrNotFound
     /\ result.ret = RetString("")
     /\ ~result.panic

C4_Witness ==
  /\ ObjectIDAnswered
  /\ result.args.objectType = "managedVolume"
  /\ calls[1].resp.total = Float64(0)
  /\ result.err = ErrNotFound

----------------------------------------------------------------------------
(* C5 *)

FailedCalls == {i \in DOMAIN calls : ~calls[i].ok}

\* C5: in every exported operation, whenever a transport call (Get, Post or Patch) made
\* by the operation returns an error, the operation returns a non-nil error.
C5_TransportErrorReturned ==
  (result.op # "idle" /\ FailedCalls # {}) => result.err # Nil

----------------------------------------------------------------------------
(* C6 *)

\* a Begin invocation that resolved the volume at call 1 and read its summary at call 2
BeginReadSummary ==
  /\ result.op = "BeginManagedVolumeSnapshot"
  /\ Resolves(1, VolumeListFmt, "name", result.args.objectName)
  /\ WasServed(2)
  /\ IsCall(2, "GET", "internal", VolumeFmt, <<ResolvedID(1, "name", result.args.objectName)>>)

\* C6: BeginManagedVolumeSnapshot on a volume whose fetched summary has isWritable = true
\* returns the no-op message and never calls begin_snapshot; with isWritable = false it
\* issues exactly one POST to begin_snapshot for the resolved volume id with an empty
\* body and returns its response.
C6_BeginGuarded ==
  BeginReadSummary =>
    IF calls[2].resp.isWritable
    THEN /\ Len(calls) = 2
         /\ result.err = Nil
         /\ result.ret = RetMsg(MsgWritable)
    ELSE /\ Len(calls) = 3
         /\ MutatingCalls = {3}
         /\ IsCall(3, "POST", "internal", BeginFmt, <<ResolvedID(1, "name", result.args.objectName)>>)
         /\ DOMAIN calls[3].config = {}
         /\ calls[3].ok => (result.err = Nil /\ result.ret = RetResp(calls[3].resp))

C6_Witness ==
  /\ BeginReadSummary
  /\ ~calls[2].resp.isWritable
  /\ WasServed(3)
  /\ result.ret = RetResp(calls[3].resp)
  /\ isWritable[calls[3].endpoint.args[1]]

----------------------------------------------------------------------------
(* C7 *)

\* a Pause or Resume invocation that resolved the VM at call 1 and read its summary at
\* call 2
PauseReadSummary(op) ==
  /\ result.op = op
  /\ result.args.objectType = "vmware"
  /\ Resolves(1, VmListFmt, "name", result.args.objectName)
  /\ WasServed(2)
  /\ IsCall(2, "GET", "v1", VmFmt, <<ResolvedID(1, "name", result.args.objectName)>>)

\* the invocation went on to PATCH the VM with isVmPaused = flag and nothing else
PatchedWith(flag) ==
  /\ Len(calls) = 3
  /\ MutatingCalls = {3}
  /\ IsCall(3, "PATCH", "v1", VmFmt, <<ResolvedID(1, "name", result.args.objectName)>>)
  /\ DOMAIN calls[3].config = {"isVmPaused"}
  /\ calls[3].config.isVmPaused = flag
  /\ calls[3].ok => (result.err = Nil /\ result.ret = RetResp(calls[3].resp))

NoChange(msg) ==
  /\ Len(calls) = 2
  /\ result.err = Nil
  /\ result.ret = RetMsg(msg)

----------------------------------------------------------------------------
(* C8 *)

\* an OnDemandSnapshotVM invocation for "current" that resolved the VM at call 1
SnapshotCurrentResolved ==
  /\ result.op = "OnDemandSnapshotVM"
  /\ result.args.objectType = "vmware"
  /\ result.args.slaName = "current"
  /\ Resolves(1, VmListFmt, "name", result.args.objectName)

\* C8: OnDemandSnapshotVM with type "vmware" and slaName "current" fetches the resolved
\* VM's own summary, sends the VM's effectiveSlaDomainId as the slaId of the
\* snapshot-trigger POST for that VM id, and returns the href of the first link of the
\* trigger response.
C8_SnapshotCurrentSLA ==
  SnapshotCurrentResolved =>
    LET vmID == ResolvedID(1, "name", result.args.objectName)
    IN /\ IsCall(2, "GET", "v1", VmFmt, <<vmID>>)
       /\ ~result.panic
       /\ calls[2].ok =>
            /\ Len(calls) = 3
            /\ IsCall(3, "POST", "v1", VmSnapshotFmt, <<vmID>>)
            /\ DOMAIN calls[3].config = {"slaId"}
            /\ calls[3].config.slaId = calls[2].resp.effectiveSlaDomainId
            /\ calls[3].ok =>
                 /\ result.err = Nil
                 /\ result.ret = RetString(calls[3].resp.links[1].href)

C8_Witness ==
  /\ SnapshotCurrentResolved
  /\ WasServed(2)
  /\ WasServed(3)
  /\ calls[2].resp.effectiveSlaDomainId # calls[2].resp.configuredSlaDomainId
  /\ calls[3].config.slaId = calls[2].resp.effectiveSlaDomainId
  /\ result.ret = RetString(calls[3].resp.links[1].href)

----------------------------------------------------------------------------
(* C9 *)

\* an OnDemandSnapshotPhysical invocation whose host and template resolved and whose
\* fileset lookup, call 3, found no fileset
NoFilesetFound ==
  /\ result.op = "OnDemandSnapshotPhysical"
  /\ Resolves(1, HostListFmt, "hostname", result.args.objectName)
  /\ Resolves(2, TemplateListFmt, "name", result.args.fileset)
  /\ WasServed(3)
  /\ calls[3].endpoint.fmt = FilesetListFmt
  /\ calls[3].resp.total.v = 0
  /\ calls[3].resp.data = <<>>

\* C9: OnDemandSnapshotPhysical, when the host and the template resolve and the fileset
\* lookup returns zero filesets, returns the 'not assigned to the Fileset' error and
\* issues no snapshot-trigger POST.
C9_NoFilesetIsAnError ==
  NoFilesetFound =>
    /\ ~result.panic
    /\ result.err = ErrNotAssigned
    /\ MutatingCalls = {}

----------------------------------------------------------------------------
(* C10 *)

\* the invocation was given arguments the operation does not accept
UsageError ==
  \/ /\ result.op = "ObjectID"
     /\ \/ result.args.objectType \notin ValidObjectType
        \/ /\ result.args.objectType = "filesetTemplate"
           /\ (result.args.hostOS = <<>> \/ result.args.hostOS[1] \notin {"Linux", "Windows"})
  \/ /\ result.op \in {"AssignSLA", "PauseSnapshot", "ResumeSnapshot", "OnDemandSnapshotVM"}
     /\ result.args.objectType # "vmware"
  \/ /\ result.op = "OnDemandSnapshotPhysical"
     /\ result.args.hostOS[1] \notin {"Linux", "Windows"}

UsageErrors == {ErrObjectType, ErrHostOSValue, ErrNoHostOS, ErrMustBeVmware, ErrHostOSPhysical}

\* C10: usage errors are returned before any transport call is issued: an invocation
\* with an unsupported object type, a missing or unknown OS qualifier, or an unknown
\* hostOS returns an error with no Get, Post or Patch call made.
C10_UsageErrorBeforeAnyCall ==
  UsageError =>
    /\ calls = <<>>
    /\ result.err \in UsageErrors
    /\ ~result.panic

C10_Witness ==
  /\ result.op = "OnDemandSnapshotPhysical"
  /\ result.args.hostOS = <<"AIX">>
  /\ result.args.objectName = UniqueName
  /\ calls = <<>>
  /\ result.err = ErrHostOSPhysical

----------------------------------------------------------------------------
(* C11 *)

SlowOps == {"PauseSnapshot", "ResumeSnapshot", "OnDemandSnapshotVM", "OnDemandSnapshotPhysical"}

\* the timeout the mutating call is to carry for the caller's variadic timeout
CallerTimeout(timeout) == IF timeout = <<>> THEN <<LongTimeout>> ELSE timeout

\* C11: for PauseSnapshot, ResumeSnapshot, OnDemandSnapshotVM and
\* OnDemandSnapshotPhysical the timeout passed to the mutating call is 180 when the
\* caller supplies no timeout and exactly the caller's value whenever one is supplied,
\* the base default of 15 included.
C11_CallerTimeoutKept ==
  result.op \in SlowOps =>
    \A i \in MutatingCalls : calls[i].timeout = CallerTimeout(result.args.timeout)

----------------------------------------------------------------------------
(* C12 *)

\* the SLA reference an AssignSLA invocation that got as far as its Post is to address
DesiredSLA ==
  CASE result.args.slaName = "do not protect" -> "UNPROTECTED"
    [] result.args.slaName = "clear" -> "INHERIT"
    [] OTHER -> ResolvedID(1, "name", result.args.slaName)

\* the list call of an AssignSLA invocation that resolved the VM
AssignVmListCall == IF result.args.slaName \in {"do not protect", "clear"} THEN 1 ELSE 2

\* C12: when AssignSLA does not take the no-op path it issues exactly one assignment
\* POST, addressed to the desired SLA reference (the id resolved for a named SLA, the
\* unprotect sentinel for "do not protect", the inherit sentinel for "clear"), with the
\* resolved VM id in the body, and returns the raw response.
C12_AssignPostsToDesired ==
  (result.op = "AssignSLA" /\ MutatingCalls # {}) =>
    /\ MutatingCalls = {Len(calls)}
    /\ IsCall(Len(calls), "POST", "internal", AssignFmt, <<DesiredSLA>>)
    /\ DOMAIN calls[Len(calls)].config = {"managedIds"}
    /\ calls[Len(calls)].config.managedIds =
         <<ResolvedID(AssignVmListCall, "name", result.args.objectName)>>
    /\ calls[Len(calls)].ok => (result.err = Nil /\ result.ret = RetResp(calls[Len(calls)].resp))

----------------------------------------------------------------------------
(* C13 *)

\* the invocation resolved the volume and read its summary
EndReadSummary ==
  /\ result.op = "EndManagedVolumeSnapshot"
  /\ Resolves(1, VolumeListFmt, "name", result.args.objectName)
  /\ WasServed(2)
  /\ IsCall(2, "GET", "internal", VolumeFmt, <<ResolvedID(1, "name", result.args.objectName)>>)

\* call i is the one end_snapshot of the invocation, for the resolved volume
EndPostedAt(i) ==
  /\ Len(calls) = i
  /\ MutatingCalls = {i}
  /\ IsCall(i, "POST", "internal", EndFmt, <<ResolvedID(1, "name", result.args.objectName)>>)

\* C13: EndManagedVolumeSnapshot on a volume with isWritable = false returns the no-op
\* message without resolving the SLA and without calling end_snapshot; on a writable
\* volume it calls end_snapshot exactly once, with an empty body and no SLA lookup when
\* slaName is "current", otherwise with retentionConfig.slaId the resolved id of
\* slaName; if that resolution fails the error is returned and end_snapshot not called.
C13_EndGuarded ==
  EndReadSummary =>
    IF calls[2].resp.isWritable = FALSE
    THEN /\ NoChange(MsgReadOnly)
         /\ MutatingCalls = {}
    ELSE IF result.args.slaName = "current"
    THEN /\ EndPostedAt(3)
         /\ DOMAIN calls[3].config = {}
    ELSE /\ IsCall(3, "GET", "v1", SlaListFmt, <<result.args.slaName>>)
         /\ IF Resolves(3, SlaListFmt, "name", result.args.slaName)
            THEN /\ EndPostedAt(4)
                 /\ DOMAIN calls[4].config = {"retentionConfig"}
                 /\ calls[4].config.retentionConfig =
                      [slaId |-> ResolvedID(3, "name", result.args.slaName)]
            ELSE /\ Len(calls) = 3
                 /\ MutatingCalls = {}
                 /\ result.err # Nil

C13_Witness ==
  /\ EndReadSummary
  /\ calls[2].resp.isWritable
  /\ result.args.slaName = UniqueName
  /\ EndPostedAt(4)
  /\ calls[4].ok
  /\ calls[4].config.retentionConfig.slaId = ObjectIdOf("sla", 1)

----------------------------------------------------------------------------
(* C14 *)

\* the VM and the named SLA of an OnDemandSnapshotVM invocation both resolved
SnapshotNamedResolved ==
  /\ result.op = "OnDemandSnapshotVM"
  /\ result.args.objectType = "vmware"
  /\ result.args.slaName # "current"
  /\ Resolves(1, VmListFmt, "name", result.args.objectName)
  /\ Resolves(2, SlaListFmt, "name", result.args.slaName)

\* C14: OnDemandSnapshotVM with a named SLA that resolves to identifier X issues the
\* snapshot-trigger POST for the resolved VM with slaId = X and returns the href of the
\* first link of the response; it ends with a result or a returned error, never by
\* crashing.
C14_SnapshotNamedSLA ==
  SnapshotNamedResolved =>
    /\ ~result.panic
    /\ Len(calls) = 3
    /\ IsCall(3, "POST", "v1", VmSnapshotFmt, <<ResolvedID(1, "name", result.args.objectName)>>)
    /\ DOMAIN calls[3].config = {"slaId"}
    /\ calls[3].config.slaId = ResolvedID(2, "name", result.args.slaName)
    /\ calls[3].ok => (result.err = Nil /\ result.ret = RetString(FirstHref(calls[3].resp)))

----------------------------------------------------------------------------
(* C15 *)

\* the host and the template resolved, and the fileset lookup returned a fileset
PhysicalFilesetFound ==
  /\ result.op = "OnDemandSnapshotPhysical"
  /\ Resolves(1, HostListFmt, "hostname", result.args.objectName)
  /\ Resolves(2, TemplateListFmt, "name", result.args.fileset)
  /\ WasServed(3)
  /\ IsCall(3, "GET", "v1", FilesetListFmt,
            <<ResolvedID(1, "hostname", result.args.objectName),
              ResolvedID(2, "name", result.args.fileset)>>)
  /\ Len(calls[3].resp.data) > 0

\* call i is the one snapshot trigger of the invocation: for the first fileset, with
\* slaId sla, its first href returned
PhysicalPostedAt(i, sla) ==
  /\ Len(calls) = i
  /\ MutatingCalls = {i}
  /\ IsCall(i, "POST", "v1", FilesetSnapshotFmt, <<calls[3].resp.data[1].id>>)
  /\ DOMAIN calls[i].config = {"slaId"}
  /\ calls[i].config.slaId = sla
  /\ ~result.panic
  /\ IF calls[i].ok THEN result.err = Nil /\ result.ret = RetString(FirstHref(calls[i].resp))
     ELSE result.err # Nil

\* C15: OnDemandSnapshotPhysical, when the host, the OS-qualified template and a fileset
\* for the pair exist, issues the snapshot-trigger POST for the first fileset's id with
\* slaId the fileset's effectiveSlaDomainId when slaName is "current" and the resolved id
\* of slaName otherwise, and returns the first link's href; when the named SLA does not
\* resolve, no snapshot-trigger POST is issued.
C15_PhysicalSnapshot ==
  PhysicalFilesetFound =>
    IF result.args.slaName = "current"
    THEN PhysicalPostedAt(4, calls[3].resp.data[1].effectiveSlaDomainId)
    ELSE /\ IsCall(4, "GET", "v1", SlaListFmt, <<result.args.slaName>>)
         /\ IF Resolves(4, SlaListFmt, "name", result.args.slaName)
            THEN PhysicalPostedAt(5, ResolvedID(4, "name", result.args.slaName))
            ELSE /\ MutatingCalls = {}
                 /\ result.err # Nil

C15_Witness ==
  /\ PhysicalFilesetFound
  /\ result.args.slaName = UniqueName
  /\ PhysicalPostedAt(5, ObjectIdOf("sla", 1))
  /\ calls[5].ok
  /\ result.ret = RetString(FirstHref(calls[5].resp))

----------------------------------------------------------------------------
(* C18 *)

TransitionOps ==
  {"AssignSLA", "BeginManagedVolumeSnapshot", "EndManagedVolumeSnapshot", "PauseSnapshot",
   "ResumeSnapshot", "OnDemandSnapshotVM", "OnDemandSnapshotPhysical"}

NameListFmts == {VmListFmt, SlaListFmt, HostListFmt, TemplateListFmt, VolumeListFmt}

\* the name a list call asks for: the last argument of its endpoint
AskedName(j) == calls[j].endpoint.args[Len(calls[j].endpoint.args)]

\* call j is a resolution or a fetch that succeeded: a served Get, and when it is a
\* name lookup one with exactly one candidate of that name
ReadSucceeded(j) ==
  /\ calls[j].method = "GET"
  /\ calls[j].ok
  /\ calls[j].endpoint.fmt \in NameListFmts =>
       Len(Exact(j, IF calls[j].endpoint.fmt = HostListFmt THEN "hostname" ELSE "name",
                 AskedName(j))) = 1

\* C18: every invocation of a state-transition operation issues at most one mutating
\* transport call, that call is the last transport call of the invocation, and it is
\* issued only after every name resolution and summary fetch of the invocation has
\* succeeded; if a resolution or a fetch returns an error no mutating call is issued.
C18_OneMutationLast ==
  result.op \in TransitionOps =>
    /\ Cardinality(MutatingCalls) <= 1
    /\ \A i \in MutatingCalls :
         /\ i = Len(calls)
         /\ \A j \in 1..(i - 1) : ReadSucceeded(j)
    /\ (\E j \in DOMAIN calls : ~Mutating(calls[j]) /\ ~ReadSucceeded(j)) =>
         (MutatingCalls = {} /\ result.err # Nil)

C18_Witness ==
  /\ result.op = "AssignSLA"
  /\ result.args.slaName = UniqueName
  /\ Len(calls) = 4
  /\ MutatingCalls = {4}
  /\ \A j \in 1..3 : ReadSucceeded(j)

----------------------------------------------------------------------------
(* C16 *)

ListFmts == NameListFmts \cup {VmwareHostListFmt, FilesetListFmt}

\* the fields the invocation reads in the response of its call i
ReadFrom(i) ==
  IF calls[i].method # "GET"
  THEN IF calls[i].endpoint.fmt \in {VmSnapshotFmt, FilesetSnapshotFmt} THEN {"links"} ELSE {}
  ELSE IF calls[i].endpoint.fmt = FilesetListFmt THEN {"data"}
  ELSE IF calls[i].endpoint.fmt \in ListFmts THEN {"total", "data"}
  ELSE IF calls[i].endpoint.fmt = VolumeFmt THEN {"isWritable"}
  ELSE IF calls[i].endpoint.fmt # VmFmt THEN {}
  ELSE IF result.op \in {"PauseSnapshot", "ResumeSnapshot"} THEN {"blackoutWindowStatus"}
  ELSE IF result.op = "AssignSLA" /\ result.args.slaName = "clear" THEN {"configuredSlaDomainId"}
  ELSE {"effectiveSlaDomainId"}

\* the served response of call i has not the shape the invocation reads: a field is
\* missing, or the links list is empty
ShapeMismatch(i) ==
  /\ calls[i].ok
  /\ \E f \in ReadFrom(i) :
       \/ ~HasField(calls[i].resp, f)
       \/ f = "links" /\ calls[i].resp.links = <<>>

\* C16: in every operation a transport response whose shape does not match what the
\* operation reads (a missing total, data, isWritable, blackoutWindowStatus or
\* effectiveSlaDomainId, an empty links list) is handled as a failure returned to the
\* caller as an error, not as a crash of the calling program.
C16_MismatchIsAnError ==
  (result.op # "idle" /\ \E i \in DOMAIN calls : ShapeMismatch(i)) =>
    /\ ~result.panic
    /\ result.err # Nil

----------------------------------------------------------------------------
(* C17 *)

GuardedOps ==
  {"BeginManagedVolumeSnapshot", "EndManagedVolumeSnapshot", "PauseSnapshot", "ResumeSnapshot"}

NoOpMessage(op) ==
  CASE op = "BeginManagedVolumeSnapshot" -> MsgWritable
    [] op = "EndManagedVolumeSnapshot" -> MsgReadOnly
    [] op = "PauseSnapshot" -> MsgPaused
    [] op = "ResumeSnapshot" -> MsgNotPaused

\* the invocation repeats the one before it, which went through
Repeats ==
  /\ result.op \in GuardedOps
  /\ prev.op = result.op
  /\ prev.objectName = result.args.objectName
  /\ prev.objectType = result.args.objectType

\* ... and none of its own transport calls failed
Repeated == Repeats /\ FailedCalls = {}

\* the served mutating call i is a change of state: the summary the invocation read
\* (its second call) showed the resource out of the target state it is in now
ChangedBy(i) ==
  CASE result.op = "BeginManagedVolumeSnapshot" ->
         ~calls[2].resp.isWritable /\ isWritable[calls[i].endpoint.args[1]]
    [] result.op = "EndManagedVolumeSnapshot" ->
         calls[2].resp.isWritable /\ ~isWritable[calls[i].endpoint.args[1]]
    [] result.op = "PauseSnapshot" ->
         ~BlackoutActive(calls[2].resp) /\ blackout[calls[i].endpoint.args[1]]
    [] result.op = "ResumeSnapshot" ->
         BlackoutActive(calls[2].resp) /\ ~blackout[calls[i].endpoint.args[1]]

\* C17: guarded transitions are idempotent over sequences of calls: with the cluster
\* applying every served mutation and nothing else changing the resource, a second
\* consecutive invocation of the same operation (Begin, End, Pause, Resume) on the same
\* resource returns the no-op message and issues no mutating call, and every served
\* mutating call is an actual change of state.
C17_Idempotent ==
  /\ Repeats => MutatingCalls = {}
  /\ Repeated =>
       /\ result.err = Nil
       /\ result.ret = RetMsg(NoOpMessage(result.op))
  /\ result.op \in GuardedOps => \A i \in MutatingCalls : calls[i].ok => ChangedBy(i)

C17_Witness ==
  /\ Repeated
  /\ prev.changed
  /\ result.op = "EndManagedVolumeSnapshot"
  /\ result.args.slaName = UniqueName
  /\ Len(calls) = 2
  /\ result.ret = RetMsg(MsgReadOnly)

----------------------------------------------------------------------------
(* C19 *)

\* the mutating calls among the calls cs
MutatingIn(cs) == {i \in DOMAIN cs : Mutating(cs[i])}

\* the summary caller p's invocation fetched showed the resource in the target state
ReadInTarget(p) ==
  IF IsBegin(inv[p].op) THEN inv[p].fetched.resp.isWritable
  ELSE BlackoutActive(inv[p].fetched.resp)

\* C19: the state check and the mutation of a guarded operation are not atomic and
\* nothing coordinates concurrent invocations: the guard holds per invocation, against
\* the summary that invocation read (read in the target state: the no-op message and
\* no mutating call; read out of it: one mutating call), and two concurrent invocations
\* for the same resource can both read it out of the target state and both mutate.
C19_GuardedPerInvocation ==
  \A p \in Callers :
    (inv[p].pc = "returned" /\ inv[p].fetched.ok) =>
      IF ReadInTarget(p)
      THEN /\ MutatingIn(inv[p].out.calls) = {}
           /\ inv[p].out.ret = RetMsg(NoOpMessage(inv[p].op))
           /\ ~inv[p].late
      ELSE MutatingIn(inv[p].out.calls) = {Len(inv[p].out.calls)}

\* both callers began a snapshot of the same volume, both read it as not writable and
\* both had begin_snapshot served, the second on a volume already writable
C19_Witness ==
  /\ \A p \in {1, 2} :
       /\ inv[p].pc = "returned"
       /\ IsBegin(inv[p].op)
       /\ inv[p].objectName = UniqueName
       /\ inv[p].fetched.ok
       /\ ~ReadInTarget(p)
       /\ MutatingIn(inv[p].out.calls) = {3}
       /\ inv[p].out.calls[3].ok
       /\ inv[p].out.calls[3].endpoint = Sprintf(BeginFmt, <<ObjectIdOf("managedVolume", 1)>>)
  /\ inv[2].late
  /\ ~inv[1].late

====
